---------------------------- MODULE Spec2Model ----------------------------
(***************************************************************************)
(* A model of traitsui/extras/tutor.py: the outline builder                *)
(* (SectionFactory, ASection._load_dirs/_load_toc, Tutor.init_tutor) and   *)
(* the snippet runner (Lab.run_code).                                      *)
(*                                                                         *)
(* Text (file names, manifest lines, titles, code) is a sequence of        *)
(* one-character strings, so that the string functions of the source       *)
(* (regular expressions, splitext, split, strip, capwords, count) are      *)
(* computed character by character.                                        *)
(***************************************************************************)
EXTENDS Integers, Sequences, FiniteSets, TLC

VARIABLES
    fs,          \* the directory tree under Tutor.path: a set of entries
    root,        \* Tutor.root: the section tree (NoSection when None)
    tutor_path,  \* whether Tutor.path has been set
    sf,          \* a SectionFactory given items by its caller: its traits
    snippets,    \* Lab.snippets: the CodeItems of the lab being run
    snippet,     \* Lab.snippet: index of the selected CodeItem, 0 when None
    message,     \* Lab.message
    output,      \* Lab.output
    sys_stdout,  \* sys.stdout
    sys_stderr,  \* sys.stderr
    frames,      \* the active run_code calls, innermost last: their locals
    last_exit,   \* the exception that ended the run_code call that returned last
    values,      \* Lab.values: the namespace the lab's code runs in
    binds,       \* the bindings the lab's code makes when it runs
    demo,        \* Lab.demo.demo: what the demo pane shows
    proc,        \* the launcher process: arguments, what it printed, its exit
    view,        \* whether the view of the factory's section is initialised
    css,         \* the css_path values computed so far, by section address
    section      \* Tutor.section: the address of the current section in root

vars == <<fs, root, tutor_path, sf, snippets, snippet, message, output,
          sys_stdout, sys_stderr, frames, last_exit, values, binds, demo,
          proc, view, css, section>>

outlineVars == <<fs, root, tutor_path>>
runVars == <<snippets, snippet, message, output, sys_stdout, sys_stderr,
             frames, last_exit, values, binds, demo>>
uiVars == <<proc, view, css, section>>

-----------------------------------------------------------------------------
(* Bounds of the model.                                                    *)

\* most entries in the root directory
MaxEntries == 3
\* most description items / code items handed to a SectionFactory
MaxItems == 2
\* most CodeItems of the lab that is run
MaxSnippets == 2
\* most tokens in the code of the lab that is run
MaxLen == 8
\* most run_code calls active at once
MaxNesting == 2
\* the longest sys.argv the launcher is started with
MaxArgv == 3

-----------------------------------------------------------------------------
(* Characters and text.                                                    *)

LowerCase == <<"a","b","c","d","e","f","g","h","i","j","k","l","m",
               "n","o","p","q","r","s","t","u","v","w","x","y","z">>
UpperCase == <<"A","B","C","D","E","F","G","H","I","J","K","L","M",
               "N","O","P","Q","R","S","T","U","V","W","X","Y","Z">>
Digits == <<"0","1","2","3","4","5","6","7","8","9">>

IsDigit(c) == \E i \in 1..10 : Digits[i] = c
DigitVal(c) == (CHOOSE i \in 1..10 : Digits[i] = c) - 1

\* str.upper / str.lower on one character
Upper(c) == IF \E i \in 1..26 : LowerCase[i] = c
            THEN UpperCase[CHOOSE i \in 1..26 : LowerCase[i] = c] ELSE c
Lower(c) == IF \E i \in 1..26 : UpperCase[i] = c
            THEN LowerCase[CHOOSE i \in 1..26 : UpperCase[i] = c] ELSE c
LowerStr(s) == [i \in 1..Len(s) |-> Lower(s[i])]

\* s[i:] in Python terms, with i counted from 1 here
From(s, i) == SubSeq(s, i, Len(s))

\* positions of character c in s
Positions(s, c) == {i \in 1..Len(s) : s[i] = c}
Max(S) == CHOOSE x \in S : \A y \in S : y <= x
Min(S) == CHOOSE x \in S : \A y \in S : x <= y

\* str.strip(): leading and trailing blanks removed
Strip(s) ==
    LET keep == {i \in 1..Len(s) : s[i] # " "}
    IN  IF keep = {} THEN <<>> ELSE SubSeq(s, Min(keep), Max(keep))

\* item.split(':', 1): the parts before and after the first colon
SplitColon(s) ==
    LET at == Positions(s, ":")
    IN  IF at = {} THEN <<s>>
        ELSE <<SubSeq(s, 1, Min(at) - 1), From(s, Min(at) + 1)>>

\* str.replace('_', ' ')
ReplaceUnderscore(s) == [i \in 1..Len(s) |-> IF s[i] = "_" THEN " " ELSE s[i]]

\* str.split(): the maximal runs of non-blank characters
RECURSIVE Words(_)
Words(s) ==
    LET t == IF Positions(s, " ") = {} THEN s
             ELSE SubSeq(s, 1, Min(Positions(s, " ")) - 1)
    IN  IF s = <<>> THEN <<>>
        ELSE IF s[1] = " " THEN Words(Tail(s))
        ELSE <<t>> \o Words(From(s, Len(t) + 1))

\* str.capitalize()
Capitalize(w) == [i \in 1..Len(w) |-> IF i = 1 THEN Upper(w[i]) ELSE Lower(w[i])]

RECURSIVE JoinBlank(_)
JoinBlank(ws) ==
    IF ws = <<>> THEN <<>>
    ELSE IF Len(ws) = 1 THEN ws[1]
    ELSE ws[1] \o <<" ">> \o JoinBlank(Tail(ws))

\* title_for: capwords(title.replace('_', ' '))
title_for(title) ==
    LET ws == Words(ReplaceUnderscore(title))
    IN  JoinBlank([i \in 1..Len(ws) |-> Capitalize(ws[i])])

\* os.path.splitext: the extension starts at the last dot, unless that dot
\* is one of the leading dots of the name
splitext(name) ==
    LET dots == Positions(name, ".")
        last == Max(dots)
    IN  IF dots = {} \/ (\A i \in 1..(Max(dots) - 1) : name[i] = ".")
        THEN [root |-> name, ext |-> <<>>]
        ELSE [root |-> SubSeq(name, 1, last - 1), ext |-> From(name, last)]

\* float() of a string of digits
RECURSIVE DigitsVal(_)
DigitsVal(ds) ==
    IF ds = <<>> THEN 0
    ELSE 10 * DigitsVal(SubSeq(ds, 1, Len(ds) - 1)) + DigitVal(ds[Len(ds)])

RECURSIVE Pow10(_)
Pow10(n) == IF n = 0 THEN 1 ELSE 10 * Pow10(n - 1)

AllDigits(s) == s # <<>> /\ \A i \in 1..Len(s) : IsDigit(s[i])

\* float() of "ddd" or "ddd.ddd", as the fraction num/den
ParseFloat(s) ==
    LET dots == Positions(s, ".")
    IN  IF dots = {} THEN [num |-> DigitsVal(s), den |-> 1]
        ELSE LET d == Min(dots)
                 frac == From(s, d + 1)
             IN  [num |-> DigitsVal(SubSeq(s, 1, d - 1)) * Pow10(Len(frac))
                            + DigitsVal(frac),
                  den |-> Pow10(Len(frac))]

KeyLess(a, b) == a.num * b.den < b.num * a.den
KeyEq(a, b) == a.num * b.den = b.num * a.den

\* dir_pat1 = ^(\d\d\d\d)_(.*)$
dir_pat1(name) ==
    IF Len(name) >= 5 /\ AllDigits(SubSeq(name, 1, 4)) /\ name[5] = "_"
    THEN [matched |-> TRUE, number |-> SubSeq(name, 1, 4), title |-> From(name, 6)]
    ELSE [matched |-> FALSE, number |-> <<>>, title |-> <<>>]

\* dir_pat2 = ^(.*)_(\d+\.\d+)$ : digits and dots hold no underscore, so the
\* number can only start after the last underscore
dir_pat2(name) ==
    LET us == Positions(name, "_")
        u == Max(us)
        num == From(name, u + 1)
        dots == Positions(num, ".")
    IN  IF /\ us # {}
           /\ Cardinality(dots) = 1
           /\ AllDigits(SubSeq(num, 1, Min(dots) - 1))
           /\ AllDigits(From(num, Min(dots) + 1))
        THEN [matched |-> TRUE, number |-> num, title |-> SubSeq(name, 1, u - 1)]
        ELSE [matched |-> FALSE, number |-> <<>>, title |-> <<>>]


-----------------------------------------------------------------------------
(* The file system.  An entry of a directory is                            *)
(*   [name, isdir, dir, lines, readable]                                   *)
(* where dir is the set of entries of a subdirectory and lines is the text *)
(* of a file, line by line; open() fails on a file that is not readable.   *)
(* A directory is the set of its entries; a path is the sequence of names  *)
(* leading to it from the tutorial's root.                                 *)

File(name, lines) ==
    [name |-> name, isdir |-> FALSE, dir |-> {}, lines |-> lines, readable |-> TRUE]
Dir(name, entries) ==
    [name |-> name, isdir |-> TRUE, dir |-> entries, lines |-> <<>>, readable |-> TRUE]
Unreadable(name) ==
    [name |-> name, isdir |-> FALSE, dir |-> {}, lines |-> <<>>, readable |-> FALSE]

\* read_file: the text of the file, or None (ok is FALSE) when open or read
\* raises
read_file(e) ==
    IF e.readable THEN [ok |-> TRUE, lines |-> e.lines]
    ELSE [ok |-> FALSE, lines |-> <<>>]

a_txt == File(<<"a",".","t","x","t">>, <<>>)
a_py == File(<<"a",".","p","y">>, <<>>)
b_py == File(<<"b",".","P","Y">>, <<>>)
n_xyz == File(<<"n",".","x","y","z">>, <<>>)
\* a file whose name looks like a section directory
f_0004 == File(<<"0","0","0","4","_","f">>, <<>>)
\* a description file: the title, then the table of contents
t_desc == File(<<"t",".","d","e","s","c">>,
               << <<"#"," ","t","o","c">>,
                  <<"M","y"," ","T","o","u","r">>,
                  <<>>,
                  <<"m","i","s","c",":"," ","O","t","h","e","r">>,
                  <<" ","a"," ">>,
                  <<"z","z">> >>)

d_0001_a == Dir(<<"0","0","0","1","_","a">>, {a_txt})
d_0002_b == Dir(<<"0","0","0","2","_","b">>, {b_py})
d_bar == Dir(<<"b","a","r","_","0",".","5">>, {a_txt, b_py})
d_foo == Dir(<<"f","o","o","_","1",".","5">>, {d_0001_a, d_0002_b})
d_x == Dir(<<"x","_","1",".","0">>, {a_txt})
d_0003_e == Dir(<<"0","0","0","3","_","e">>, {n_xyz})
d_misc == Dir(<<"m","i","s","c">>, {a_txt})

\* the style sheet of a directory, and files that cannot be read
default_css == <<"d","e","f","a","u","l","t",".","c","s","s">>
css_file == File(default_css, <<>>)
u_txt == Unreadable(<<"u",".","t","x","t">>)
u_url == Unreadable(<<"u",".","u","r","l">>)
u_htm == Unreadable(<<"u",".","h","t","m">>)
\* the description file with its extension in capitals
upper_desc == File(<<"t",".","D","E","S","C">>, t_desc.lines)
\* a file no handler takes, named by the last entry of the description file
zz_xyz == File(<<"z","z",".","x","y","z">>, <<>>)
\* a description file named like an entry of t_desc, with an entry of its own
a_desc == File(<<"a",".","d","e","s","c">>, << <<"T","o","p","i","c">>, <<"b">> >>)
\* chapters: directories of section directories
d_0000_m == Dir(<<"0","0","0","0","_","m">>, {d_0001_a, d_0002_b})
d_0005_n == Dir(<<"0","0","0","5","_","n">>, {d_0001_a, d_0002_b})

\* what the root directory is drawn from
Universe == {a_txt, a_py, f_0004, t_desc,
             d_0001_a, d_bar, d_foo, d_x, d_0003_e, d_misc}

\* a fixed order of all names, for the directories whose enumeration order
\* is not an input of the step
AllNames == <<a_txt.name, a_py.name, b_py.name, n_xyz.name, f_0004.name,
              t_desc.name, d_0001_a.name, d_0002_b.name, d_bar.name,
              d_foo.name, d_x.name, d_0003_e.name, d_misc.name,
              default_css, u_txt.name, u_url.name, u_htm.name, upper_desc.name,
              zz_xyz.name, d_0000_m.name, d_0005_n.name,
              a_desc.name>>
NameRank(n) == CHOOSE i \in 1..Len(AllNames) : AllNames[i] = n

FileSystems == {d \in SUBSET Universe : Cardinality(d) <= MaxEntries}

RECURSIVE DirAt(_, _)
DirAt(d, path) ==
    IF path = <<>> THEN d
    ELSE LET es == {e \in d : e.name = Head(path) /\ e.isdir}
         IN  IF es = {} THEN {} ELSE DirAt((CHOOSE e \in es : TRUE).dir, Tail(path))

HasEntry(d, path, name) == \E e \in DirAt(d, path) : e.name = name
EntryOf(d, path, name) == CHOOSE e \in DirAt(d, path) : e.name = name
\* os.path.isdir / os.path.isfile of os.path.join(path, name)
isdir(d, path, name) == HasEntry(d, path, name) /\ EntryOf(d, path, name).isdir
isfile(d, path, name) == HasEntry(d, path, name) /\ ~EntryOf(d, path, name).isdir

\* the sequences that enumerate the set S once each
Enumerations(S) ==
    {s \in [1..Cardinality(S) -> S] : \A i, j \in 1..Cardinality(S) : s[i] = s[j] => i = j}

Names(d) == {e.name : e \in d}

RECURSIVE Ranked(_)
Ranked(S) ==
    IF S = {} THEN <<>>
    ELSE LET n == CHOOSE x \in S : \A y \in S : NameRank(x) <= NameRank(y)
         IN  <<n>> \o Ranked(S \ {n})

Reverse(s) == [i \in 1..Len(s) |-> s[Len(s) + 1 - i]]

\* The order os.listdir returns is arbitrary.  An enumeration
\*   [at, top, rev]
\* is what the file system answers during one step: the directory at path
\* `at` is listed as `top`, every other one in the fixed order or, when rev,
\* in the opposite one.
listdir(d, enum, path) ==
    IF path = enum.at THEN enum.top
    ELSE IF enum.rev THEN Reverse(Ranked(Names(DirAt(d, path))))
    ELSE Ranked(Names(DirAt(d, path)))

EnumsAt(d, path) ==
    {[at |-> path, top |-> t, rev |-> r] :
        t \in Enumerations(Names(DirAt(d, path))), r \in BOOLEAN}

-----------------------------------------------------------------------------
(* Sections.  A section is a record                                        *)
(*   [kind, title, path, toc, descriptions, snippets, auto_run,            *)
(*    loaded, subs]                                                        *)
(* kind is the class (Lecture, Lab, Lesson, Demo), or "None" where the     *)
(* source has None.  loaded tells whether the cached property              *)
(* `subsections` has been computed, subs is its value.  A section's parent *)
(* is the section whose subs holds it.                                     *)

NoSection == [kind |-> "None", title |-> <<>>, path |-> <<>>, toc |-> <<>>,
              descriptions |-> <<>>, snippets |-> <<>>, auto_run |-> FALSE,
              loaded |-> FALSE, subs |-> <<>>]

\* description items and code items
TextItem(name) == [cls |-> "TextItem", src |-> name, topics |-> <<>>]
HTMLItem(name) == [cls |-> "HTMLItem", src |-> name, topics |-> <<>>]
HTMLStrItem(name) == [cls |-> "HTMLStrItem", src |-> name, topics |-> <<>>]
\* the item made from DefaultLecture: the page listing the given titles
DefaultLectureItem(titles) == [cls |-> "HTMLItem", src |-> <<>>, topics |-> titles]
CodeItem(name, hidden) == [src |-> name, hidden |-> hidden]

\* is_windows and wx_available
is_windows_wx == FALSE

\* the extensions e for which SectionFactory has a method _add_<e>_item that
\* appends one HTML item whatever the file holds
OneHtmlItemExts == {<<"m","o","v">>, <<"w","m","v">>, <<"a","v","i">>,
                    <<"j","p","g">>, <<"j","p","e","g">>, <<"p","n","g">>,
                    <<"m","p","3">>}

\* the non-blank lines of a text that do not start with '#', stripped
RECURSIVE UsefulLines(_)
UsefulLines(lines) ==
    IF lines = <<>> THEN <<>>
    ELSE LET line == Strip(Head(lines))
         IN  IF Len(line) > 0 /\ line[1] # "#"
             THEN <<line>> \o UsefulLines(Tail(lines))
             ELSE UsefulLines(Tail(lines))

\* SectionFactory._add_desc_item on the factory traits st
add_desc_item(st, e) ==
    LET lines == IF read_file(e).ok THEN UsefulLines(read_file(e).lines) ELSE <<>>
    IN  IF Len(st.toc) > 0 THEN st
        ELSE IF Len(lines) = 0
        THEN [st EXCEPT !.title = title_for(splitext(e.name).root)]
        ELSE [st EXCEPT !.title = lines[1], !.toc = Tail(lines)]

\* _add_py_item without its description: the code item only
add_py_item_code_only(st, e) ==
    [st EXCEPT !.snippets = Append(@, CodeItem(e.name, FALSE))]

\* SectionFactory._add_py_item
add_py_item(st, e) ==
    [st EXCEPT !.descriptions = Append(@, HTMLStrItem(e.name)),
               !.snippets = Append(@, CodeItem(e.name, FALSE))]

\* SectionFactory._add_txt_item
add_txt_item(st, e) == [st EXCEPT !.descriptions = Append(@, TextItem(e.name))]

\* SectionFactory._add_htm_item: skipped when a .rst file of the same base
\* name exists
add_htm_item(st, e, d, path) ==
    IF isfile(d, path, splitext(e.name).root \o <<".","r","s","t">>) THEN st
    ELSE [st EXCEPT !.descriptions = Append(@, HTMLItem(e.name))]

\* SectionFactory._add_url_item: one item for each useful line
add_url_item(st, e) ==
    LET urls == IF read_file(e).ok THEN UsefulLines(read_file(e).lines) ELSE <<>>
    IN  [st EXCEPT !.descriptions = @ \o [i \in 1..Len(urls) |-> HTMLItem(urls[i])]]

\* SectionFactory._add_rst_item ends with one item either way: the page
\* made from the text or, failing that, the text itself
add_rst_item(st, e) ==
    [st EXCEPT !.descriptions =
        Append(@, [cls |-> "RstItem", src |-> e.name, topics |-> <<>>])]

\* SectionFactory._add_swf_item
add_swf_item(st, e) ==
    IF is_windows_wx
    THEN [st EXCEPT !.descriptions =
            Append(@, [cls |-> "FlashItem", src |-> e.name, topics |-> <<>>])]
    ELSE st

\* the dispatch getattr(self, '_add_%s_item' % ext[1:].lower(), None)
add_item(st, e, d, path) ==
    LET kind == LowerStr(Tail(splitext(e.name).ext))
    IN  IF kind = <<"p","y">> THEN add_py_item(st, e)
        ELSE IF kind = <<"t","x","t">> THEN add_txt_item(st, e)
        ELSE IF kind \in {<<"h","t","m">>, <<"h","t","m","l">>}
             THEN add_htm_item(st, e, d, path)
        ELSE IF kind = <<"u","r","l">> THEN add_url_item(st, e)
        ELSE IF kind = <<"r","s","t">> THEN add_rst_item(st, e)
        ELSE IF kind = <<"s","w","f">> THEN add_swf_item(st, e)
        ELSE IF kind \in OneHtmlItemExts
             THEN [st EXCEPT !.descriptions = Append(@, HTMLItem(e.name))]
        ELSE IF kind = <<"d","e","s","c">> THEN add_desc_item(st, e)
        ELSE st

\* the first loop of _path_changed: the description file found first
RECURSIVE add_first_desc(_, _, _, _)
add_first_desc(st, names, d, path) ==
    IF names = <<>> THEN st
    ELSE IF splitext(Head(names)).ext = <<".","d","e","s","c">>
    THEN add_desc_item(st, EntryOf(d, path, Head(names)))
    ELSE add_first_desc(st, Tail(names), d, path)

\* the second loop of _path_changed: every actual file whose base name is not
\* in the table of contents and whose extension has a handler
RECURSIVE add_files(_, _, _, _, _)
add_files(st, names, toc, d, path) ==
    IF names = <<>> THEN st
    ELSE LET name == Head(names)
             parts == splitext(name)
             st1 == IF /\ isfile(d, path, name)
                       /\ \A i \in 1..Len(toc) : toc[i] # parts.root
                       /\ Len(parts.ext) > 1
                    THEN add_item(st, EntryOf(d, path, name), d, path)
                    ELSE st
         IN  add_files(st1, Tail(names), toc, d, path)

\* the class chosen when a Lesson needs every code item to be shown
SectionKindBug(descriptions, snips) ==
    IF Len(descriptions) > 0
    THEN IF Len(snips) > 0
         THEN IF \A i \in 1..Len(snips) : ~snips[i].hidden
              THEN "Lesson" ELSE "Demo"
         ELSE "Lecture"
    ELSE IF Len(snips) > 0 THEN "Lab" ELSE "None"

\* the class chosen by _path_changed from the items collected; "None" when
\* there are none
SectionKind(descriptions, snips) ==
    IF Len(descriptions) > 0
    THEN IF Len(snips) > 0
         THEN IF Len(SelectSeq(snips, LAMBDA sn : ~sn.hidden)) > 0
              THEN "Lesson" ELSE "Demo"
         ELSE "Lecture"
    ELSE IF Len(snips) > 0 THEN "Lab" ELSE "None"

-----------------------------------------------------------------------------
(* Building sections.                                                      *)

\* SortByKey without the sort
Unsorted(s) == s

\* dirs.sort(key=itemgetter(0)): a stable sort on the number alone
RECURSIVE SortByKey(_)
SortByKey(s) ==
    IF s = <<>> THEN <<>>
    ELSE LET x == s[Len(s)]
             done == SortByKey(SubSeq(s, 1, Len(s) - 1))
             after == {i \in 1..Len(done) : KeyLess(x.key, done[i].key)}
             at == IF after = {} THEN Len(done) + 1 ELSE Min(after)
         IN  SubSeq(done, 1, at - 1) \o <<x>> \o SubSeq(done, at, Len(done))

\* the first loop of _load_dirs: the sub-directories named ddd_title or
\* title_ddd.ddd, in the order listed, as (number, title, name)
NumberedDirs(d, path, names) ==
    LET hit(n) == isdir(d, path, n) /\ (dir_pat1(n).matched \/ dir_pat2(n).matched)
        m(n) == IF dir_pat1(n).matched THEN dir_pat1(n) ELSE dir_pat2(n)
        kept == SelectSeq(names, hit)
    IN  [i \in 1..Len(kept) |->
            [key |-> ParseFloat(m(kept[i]).number),
             title |-> m(kept[i]).title,
             name |-> kept[i]]]

\* the first loop of _load_toc: the names listed, grouped under the first
\* table-of-contents entry whose base name is theirs
TocGroups(toc, names) ==
    LET base_names == [i \in 1..Len(toc) |-> SplitColon(toc[i])[1]]
        index(n) == Min({j \in 1..Len(toc) : base_names[j] = splitext(n).root} \cup {Len(toc) + 1})
    IN  [i \in 1..Len(toc) |-> SelectSeq(names, LAMBDA n : index(n) = i)]

\* the title _load_toc gives the section of a table-of-contents entry
TocTitle(item) ==
    LET parts == SplitColon(item)
    IN  IF Len(parts) = 1 THEN title_for(Strip(parts[1])) ELSE Strip(parts[2])

IsSection(sec) == sec.kind # "None"

\* the arguments of one SectionFactory(title=title, files=files)
\* .trait_set(path=path)
Factory(path, files, title) == [path |-> path, files |-> files, title |-> title]

\* ASection._load_dirs: the factories it creates, in order
load_dirs(d, enum, path) ==
    LET dirs == SortByKey(NumberedDirs(d, path, listdir(d, enum, path)))
    IN  [i \in 1..Len(dirs) |->
            Factory(Append(path, dirs[i].name), <<>>, title_for(dirs[i].title))]

\* load_toc with the groups taken in the order their first name is listed
load_toc_listed(d, enum, path, toc) ==
    LET names == listdir(d, enum, path)
        groups == TocGroups(toc, names)
        first(i) == Min({j \in 1..Len(names) : \E k \in 1..Len(groups[i]) :
                                                  groups[i][k] = names[j]})
        found == {i \in 1..Len(toc) : groups[i] # <<>>}
        RECURSIVE order(_)
        order(S) == IF S = {} THEN <<>>
                    ELSE LET i == CHOOSE x \in S : \A y \in S : first(x) <= first(y)
                         IN  <<i>> \o order(S \ {i})
        seq == order(found)
        single(k) == Len(groups[seq[k]]) = 1 /\ isdir(d, path, groups[seq[k]][1])
    IN  [k \in 1..Len(seq) |->
            Factory(IF single(k) THEN Append(path, groups[seq[k]][1]) ELSE path,
                    IF single(k) THEN <<>> ELSE groups[seq[k]],
                    TocTitle(toc[seq[k]]))]

\* ASection._load_toc: the factories it creates, in order.  An entry whose
\* only match is a directory gets that directory, any other one gets the
\* section's own directory and the list of the matching names.
load_toc(d, enum, path, toc) ==
    LET groups == TocGroups(toc, listdir(d, enum, path))
        found == SelectSeq([i \in 1..Len(toc) |-> i], LAMBDA i : groups[i] # <<>>)
        names(k) == groups[found[k]]
        single(k) == Len(names(k)) = 1 /\ isdir(d, path, names(k)[1])
    IN  [k \in 1..Len(found) |->
            Factory(IF single(k) THEN Append(path, names(k)[1]) ELSE path,
                    IF single(k) THEN <<>> ELSE names(k),
                    TocTitle(toc[found[k]]))]

RECURSIVE get_subsections(_, _, _, _)
RECURSIVE SectionFor(_, _, _, _, _, _, _)

\* _path_changed up to the choice of the class: the factory's traits once
\* every file has been given to its handler
collect(d, enum, path, files, title, descs, snips) ==
    LET st0 == [title |-> title, toc |-> <<>>, descriptions |-> descs,
                snippets |-> snips]
        names == IF Len(files) = 0 THEN listdir(d, enum, path) ELSE files
        st1 == IF Len(files) = 0 THEN add_first_desc(st0, names, d, path) ELSE st0
        toc == [i \in 1..Len(st1.toc) |-> Strip(SplitColon(st1.toc[i])[1])]
    IN  add_files(st1, names, toc, d, path)

\* NewSection leaving out the table of contents
NewSectionNoToc(kind, st, path) ==
    [kind |-> kind, title |-> st.title, path |-> path, toc |-> <<>>,
     descriptions |-> st.descriptions, snippets |-> st.snippets,
     auto_run |-> (kind = "Demo"), loaded |-> FALSE, subs |-> <<>>]

\* NewSection leaving auto_run at its default
NewSectionManual(kind, st, path) ==
    [kind |-> kind, title |-> st.title, path |-> path, toc |-> st.toc,
     descriptions |-> st.descriptions, snippets |-> st.snippets,
     auto_run |-> FALSE, loaded |-> FALSE, subs |-> <<>>]

\* Lesson(...), Demo(...), Lecture(...) or Lab(...) as _path_changed calls
\* them when there are items; the factory's auto_run is never set
NewSection(kind, st, path) ==
    [kind |-> kind, title |-> st.title, path |-> path, toc |-> st.toc,
     descriptions |-> st.descriptions, snippets |-> st.snippets,
     auto_run |-> (kind = "Demo"), loaded |-> FALSE, subs |-> <<>>]

\* TopicsLecture keeping the Lecture that has no subsections
TopicsLectureAlways(st, path, subs) ==
    [kind |-> "Lecture", title |-> st.title, path |-> path, toc |-> st.toc,
     descriptions |->
         IF Len(subs) > 0
         THEN Append(st.descriptions,
                     DefaultLectureItem([i \in 1..Len(subs) |-> subs[i].title]))
         ELSE st.descriptions,
     snippets |-> <<>>, auto_run |-> FALSE, loaded |-> TRUE, subs |-> subs]

\* TopicsLecture listing the titles last to first
TopicsLectureReversed(st, path, subs) ==
    IF Len(subs) > 0
    THEN [kind |-> "Lecture", title |-> st.title, path |-> path, toc |-> st.toc,
          descriptions |->
              Append(st.descriptions,
                     DefaultLectureItem([i \in 1..Len(subs) |->
                                            subs[Len(subs) + 1 - i].title])),
          snippets |-> <<>>, auto_run |-> FALSE, loaded |-> TRUE, subs |-> subs]
    ELSE NoSection

\* the last branch of _path_changed: a Lecture without items is kept only if
\* it has subsections, and is then given the page listing their titles
TopicsLecture(st, path, subs) ==
    IF Len(subs) > 0
    THEN [kind |-> "Lecture", title |-> st.title, path |-> path, toc |-> st.toc,
          descriptions |->
              Append(st.descriptions,
                     DefaultLectureItem([i \in 1..Len(subs) |-> subs[i].title])),
          snippets |-> <<>>, auto_run |-> FALSE, loaded |-> TRUE, subs |-> subs]
    ELSE NoSection

\* the end of _path_changed: the section made from the factory's traits st
SectionOf(st, d, enum, path) ==
    IF SectionKind(st.descriptions, st.snippets) # "None"
    THEN NewSection(SectionKind(st.descriptions, st.snippets), st, path)
    ELSE TopicsLecture(st, path, get_subsections(d, enum, path, st.toc))

\* SectionFactory(title=title, files=files, descriptions=descs,
\* snippets=snips).trait_set(path=path).section : _path_changed
SectionFor(d, enum, path, files, title, descs, snips) ==
    SectionOf(collect(d, enum, path, files, title, descs, snips), d, enum, path)

\* [sf.section for sf in made if sf.section is not None]
Sections(made, d, enum) ==
    SelectSeq([i \in 1..Len(made) |->
                  SectionFor(d, enum, made[i].path, made[i].files,
                             made[i].title, <<>>, <<>>)],
              IsSection)

\* ASection._get_subsections: the sections of the factories of _load_toc or
\* _load_dirs that are not None
get_subsections(d, enum, path, toc) ==
    Sections(IF Len(toc) > 0 THEN load_toc(d, enum, path, toc)
             ELSE load_dirs(d, enum, path),
             d, enum)

-----------------------------------------------------------------------------
(* The section tree.  A node is addressed by the indices leading to it     *)
(* from the root: <<>> is the root, <<2, 1>> the first subsection of the   *)
(* root's second subsection.                                               *)

RECURSIVE Addrs(_)
Addrs(sec) ==
    IF ~IsSection(sec) THEN {}
    ELSE {<<>>} \cup UNION {{<<i>> \o a : a \in Addrs(sec.subs[i])} : i \in 1..Len(sec.subs)}

RECURSIVE NodeAt(_, _)
NodeAt(sec, addr) ==
    IF addr = <<>> THEN sec ELSE NodeAt(sec.subs[Head(addr)], Tail(addr))

RECURSIVE SetAt(_, _, _)
SetAt(sec, addr, node) ==
    IF addr = <<>> THEN node
    ELSE [sec EXCEPT !.subs[Head(addr)] = SetAt(@, Tail(addr), node)]

\* the name of the directory Tutor.path
RootName == <<"t","o","u","r",".","d">>

-----------------------------------------------------------------------------
(* The tutor.                                                              *)

\* the names a lab's code binds: the two result bindings and one other
VarNames == {"demo", "popup", "x"}

\* what a name is bound to: an instance of HasTraits or another value
Kinds == {"HasTraits", "other"}

\* Lab.values is an empty Dict at first
NoValues == [k \in VarNames |-> "unbound"]

\* the launcher's process before the script runs: argv is len(sys.argv),
\* usage tells whether the usage text has been printed, window whether
\* configure_traits has opened the tutor, and exit is the exit status, -1
\* while the process has not ended
NoProc == [argv |-> 0, usage |-> FALSE, window |-> FALSE, exit |-> -1]

\* Tutor.section is None until a root is built: no address starts with 0
NoAddr == <<0>>

IdleUi == proc = NoProc /\ view = "closed" /\ css = {} /\ section = NoAddr

IdleRun ==
    /\ values = NoValues
    /\ binds = {}
    /\ demo = "NoDemo"
    /\ snippets = <<>>
    /\ snippet = 0
    /\ message = <<>>
    /\ output = <<>>
    /\ sys_stdout = <<"stdout">>
    /\ sys_stderr = <<"stderr">>
    /\ frames = <<>>
    /\ last_exit = <<"none">>

IdleFactory == sf = [descriptions |-> <<>>, snippets |-> <<>>, done |-> FALSE,
                     section |-> NoSection]

Init ==
    /\ fs \in FileSystems
    /\ root = NoSection
    /\ tutor_path = FALSE
    /\ IdleFactory
    /\ IdleRun
    /\ IdleUi

\* the end of init_tutor without its test of the section made
set_root_always(made) ==
    /\ tutor_path' = TRUE
    /\ root' = made
    /\ css' = {}
    /\ section' = IF IsSection(made) THEN <<>> ELSE NoAddr
    /\ UNCHANGED <<fs, sf, runVars, proc, view>>

\* the end of init_tutor: the root is replaced only when the path yields a
\* section, and the new sections have no css_path yet
set_root(made) ==
    /\ tutor_path' = TRUE
    /\ root' = IF IsSection(made) THEN made ELSE root
    /\ css' = IF IsSection(made) THEN {} ELSE css
    /\ section' = IF IsSection(made) THEN <<>> ELSE section
    /\ UNCHANGED <<fs, sf, runVars, proc, view>>

\* Tutor.init_tutor, run when Tutor.path is set and when reload is pressed
init_tutor(enum) ==
    set_root(SectionFor(fs, enum, <<>>, <<>>, title_for(splitext(RootName).root),
                        <<>>, <<>>))

InitTutor == \E enum \in EnumsAt(fs, <<>>) : init_tutor(enum)

\* subsections as a plain property, computed on every access
subsections_uncached(addr, enum) ==
    LET node == NodeAt(root, addr)
    IN  /\ root' = SetAt(root, addr,
                         [node EXCEPT !.loaded = TRUE,
                                      !.subs = get_subsections(fs, enum, node.path, node.toc)])
        /\ UNCHANGED <<fs, tutor_path, sf, runVars, uiVars>>

\* ASection._get_subsections, a cached property: computed on first access
subsections(addr, enum) ==
    LET node == NodeAt(root, addr)
    IN  /\ ~node.loaded
        /\ root' = SetAt(root, addr,
                         [node EXCEPT !.loaded = TRUE,
                                      !.subs = get_subsections(fs, enum, node.path, node.toc)])
        /\ UNCHANGED <<fs, tutor_path, sf, runVars, uiVars>>

GetSubsections ==
    \E addr \in Addrs(root) :
        \E enum \in EnumsAt(fs, NodeAt(root, addr).path) : subsections(addr, enum)

Next == InitTutor \/ GetSubsections

Spec == Init /\ [][Next]_vars

\* the tutorial's directory while the tutor is open: other programs add and
\* remove entries
CacheUniverse == {a_txt, d_0001_a, d_bar, d_x}
CacheWorlds == {d \in SUBSET CacheUniverse : Cardinality(d) <= MaxEntries}

InitCache ==
    /\ fs \in CacheWorlds
    /\ root = NoSection
    /\ tutor_path = FALSE
    /\ IdleFactory
    /\ IdleRun
    /\ IdleUi

\* one entry of the root directory appears or disappears
DirectoryChanged ==
    /\ \E e \in CacheUniverse :
          /\ fs' = IF e \in fs THEN fs \ {e} ELSE fs \cup {e}
          /\ fs' \in CacheWorlds
    /\ UNCHANGED <<root, tutor_path, sf, runVars, uiVars>>

NextCache == InitTutor \/ GetSubsections \/ DirectoryChanged

SpecCache == InitCache /\ [][NextCache]_vars

-----------------------------------------------------------------------------
(* Style sheets and files that cannot be read.                             *)

\* the style sheet of a directory that has one
Sheet(has) == IF has THEN {css_file} ELSE {}

\* a tutorial three directories deep, with a style sheet where r, m, l say
CssTree(r, m, l) ==
    Sheet(r) \cup
    {Dir(d_foo.name, Sheet(m) \cup {a_txt, Dir(d_0001_a.name, Sheet(l) \cup {a_txt})})}

\* a tutorial whose description file, desc, lists a.txt and the directory
\* misc
TocTree(desc, r, m) ==
    Sheet(r) \cup {desc, a_txt, Dir(d_misc.name, Sheet(m) \cup {a_txt})}

UnreadableUniverse == {a_txt, u_txt, u_url, u_htm}

\* tutorials with the description file and some of what its entries name,
\* next to a numbered directory
ManifestUniverse == {zz_xyz, a_txt, a_desc, d_0001_a, d_misc}
ManifestWorlds ==
    {{t_desc} \cup s : s \in {x \in SUBSET ManifestUniverse : Cardinality(x) < MaxEntries}}

FileWorlds ==
    {CssTree(r, m, l) : r \in BOOLEAN, m \in BOOLEAN, l \in BOOLEAN}
    \cup {TocTree(desc, r, m) : desc \in {t_desc, upper_desc}, r \in BOOLEAN, m \in BOOLEAN}
    \cup {d \in SUBSET UnreadableUniverse : Cardinality(d) <= MaxEntries}
    \cup ManifestWorlds

\* css_path_for without the step up to the parent's directory
css_path_for_flat(d, path, has_parent, parent_path, parent_css) ==
    IF isfile(d, path, default_css) THEN <<default_css>>
    ELSE IF has_parent /\ parent_css # <<>> THEN parent_css
    ELSE <<>>

\* css_path_for(path, parent): a relative path as the sequence of its
\* components, <<>> for ''
css_path_for(d, path, has_parent, parent_path, parent_css) ==
    IF isfile(d, path, default_css) THEN <<default_css>>
    ELSE IF has_parent /\ parent_css # <<>>
    THEN IF path # parent_path THEN << <<".", ".">> >> \o parent_css ELSE parent_css
    ELSE <<>>

Front(s) == SubSeq(s, 1, Len(s) - 1)

\* ASection.css_path, a cached property, of the section at addr: the parent
\* of a section is the section whose subsections hold it
RECURSIVE css_path(_, _, _, _)
css_path(cache, d, tree, addr) ==
    IF \E c \in cache : c.addr = addr
    THEN (CHOOSE c \in cache : c.addr = addr).path
    ELSE css_path_for(d, NodeAt(tree, addr).path, addr # <<>>,
                      IF addr # <<>> THEN NodeAt(tree, Front(addr)).path ELSE <<>>,
                      IF addr # <<>> THEN css_path(cache, d, tree, Front(addr)) ELSE <<>>)

\* ASection._get_css_path on first access: the value is kept, and so is the
\* one of every ancestor it asked
get_css_path(addr) ==
    /\ ~\E c \in css : c.addr = addr
    /\ css' = css \cup
          {[addr |-> SubSeq(addr, 1, k), path |-> css_path(css, fs, root, SubSeq(addr, 1, k))] :
              k \in 0..Len(addr)}
    /\ UNCHANGED <<fs, root, tutor_path, sf, runVars, proc, view, section>>

GetCssPath == \E addr \in Addrs(root) : get_css_path(addr)

InitFiles ==
    /\ fs \in FileWorlds
    /\ root = NoSection
    /\ tutor_path = FALSE
    /\ IdleFactory
    /\ IdleRun
    /\ IdleUi

NextFiles == InitTutor \/ GetSubsections \/ GetCssPath

SpecFiles == InitFiles /\ [][NextFiles]_vars

-----------------------------------------------------------------------------
(* The launcher script examples/tutorials/tutor.py.                        *)

LaunchUniverse == {a_txt, a_py, n_xyz, d_0001_a, d_0003_e}
LaunchWorlds == {d \in SUBSET LaunchUniverse : Cardinality(d) <= MaxEntries}

InitLaunch ==
    /\ fs \in LaunchWorlds
    /\ root = NoSection
    /\ tutor_path = FALSE
    /\ IdleFactory
    /\ IdleRun
    /\ IdleUi

\* the script starts: with more than one argument it prints the usage text
\* and calls sys.exit(1)
Launch ==
    /\ proc = NoProc
    /\ \E n \in 1..MaxArgv :
          proc' = IF n > 2 THEN [argv |-> n, usage |-> TRUE, window |-> FALSE, exit |-> 1]
                  ELSE [NoProc EXCEPT !.argv = n]
    /\ UNCHANGED <<fs, root, tutor_path, sf, runVars, view, css, section>>

\* main: Tutor(...).trait_set(path=root_dir), and the reload button of the
\* open tutor
TutorPathSet ==
    /\ proc.argv \in 1..2
    /\ proc.exit = -1
    /\ ~tutor_path \/ proc.window
    /\ InitTutor

\* main after the path is set: configure_traits() when there is a root,
\* else NameError, which the script catches to print the error and the
\* usage text; the script then ends
main ==
    /\ tutor_path
    /\ proc.exit = -1
    /\ ~proc.window
    /\ proc' = IF IsSection(root) THEN [proc EXCEPT !.window = TRUE]
               ELSE [proc EXCEPT !.usage = TRUE, !.exit = 0]
    /\ UNCHANGED <<fs, root, tutor_path, sf, runVars, view, css, section>>

\* the tutor's window is closed: configure_traits returns and the script ends
WindowClosed ==
    /\ proc.window
    /\ proc.exit = -1
    /\ proc' = [proc EXCEPT !.exit = 0]
    /\ UNCHANGED <<fs, root, tutor_path, sf, runVars, view, css, section>>

NextLaunch == Launch \/ TutorPathSet \/ main \/ WindowClosed

SpecLaunch == InitLaunch /\ [][NextLaunch]_vars

-----------------------------------------------------------------------------
(* A SectionFactory whose caller supplies description and code items: the *)
(* traits `descriptions` and `snippets` are set when it is constructed,    *)
(* then its path is set to a directory.                                    *)

SeedDescriptions ==
    UNION {[1..n -> {TextItem(<<"s">>)}] : n \in 0..MaxItems}
SeedSnippets ==
    UNION {[1..n -> {CodeItem(<<"s">>, h) : h \in BOOLEAN}] : n \in 0..MaxItems}

InitKind ==
    /\ fs \in {d \in FileSystems : Cardinality(d) <= 1}
    /\ root = NoSection
    /\ tutor_path = FALSE
    /\ sf \in [descriptions : SeedDescriptions, snippets : SeedSnippets,
               done : {FALSE}, section : {NoSection}]
    /\ IdleRun
    /\ IdleUi

\* the factory's traits when _path_changed returns: the items collected,
\* the page of topics if one was made, and the section
FactoryDone(st, sec) ==
    [descriptions |-> IF IsSection(sec) THEN sec.descriptions ELSE st.descriptions,
     snippets |-> st.snippets, done |-> TRUE, section |-> sec]

FactoryOf(st, enum) == FactoryDone(st, SectionOf(st, fs, enum, <<>>))

\* SectionFactory._path_changed on a factory holding items already
FactoryPathChanged ==
    /\ ~sf.done
    /\ \E enum \in EnumsAt(fs, <<>>) :
          sf' = FactoryOf(collect(fs, enum, <<>>, <<>>, <<"s">>,
                                  sf.descriptions, sf.snippets), enum)
    /\ UNCHANGED <<fs, root, tutor_path, runVars, uiVars>>

NextKind == FactoryPathChanged

SpecKind == InitKind /\ [][NextKind]_vars

-----------------------------------------------------------------------------
(* Running the code of a lab.  The content of a CodeItem is a sequence of  *)
(* tokens: "\n" is a newline, "x" a run of characters without a newline.   *)

Contents(most) ==
    {s \in UNION {[1..n -> {"x", "\n"}] : n \in 0..most} :
        \A i \in 1..(Len(s) - 1) : ~(s[i] = "x" /\ s[i + 1] = "x")}

\* a CodeItem of the lab: start_line and selected_line are Int traits
Snippet(content) ==
    [content |-> content, start_line |-> 0, selected_line |-> 0]

\* the lists of n CodeItems holding at most the given number of tokens
RECURSIVE LabsOf(_, _)
LabsOf(n, most) ==
    IF n = 0 THEN {<<>>}
    ELSE UNION {{<<Snippet(c)>> \o rest : rest \in LabsOf(n - 1, most - Len(c))} :
                   c \in Contents(most)}

\* the labs: lists of CodeItems
Labs == UNION {LabsOf(n, MaxLen) : n \in 0..MaxSnippets}

\* str.count('\n')
count(text) == Cardinality({i \in 1..Len(text) : text[i] = "\n"})

\* the loop advancing start_line by content.count('\n') + 1
RECURSIVE AssignByLines(_, _, _)
AssignByLines(snips, i, start_line) ==
    IF i > Len(snips) THEN snips
    ELSE AssignByLines([snips EXCEPT ![i].start_line = start_line], i + 1,
                       start_line + (count(snips[i].content) + 1))

\* the loop of run_code over snippets[i..]: each CodeItem gets the running
\* start_line, which then advances by content.count('\n') + 2
RECURSIVE AssignStartLines(_, _, _)
AssignStartLines(snips, i, start_line) ==
    IF i > Len(snips) THEN snips
    ELSE AssignStartLines([snips EXCEPT ![i].start_line = start_line], i + 1,
                          start_line + (count(snips[i].content) + 2))

\* the loop of run_code over snippets[i..]: module = '%s\n\n%s' % (module,
\* snippet.content)
RECURSIVE Concatenate(_, _, _)
Concatenate(snips, i, module) ==
    IF i > Len(snips) THEN module
    ELSE Concatenate(snips, i + 1, module \o <<"\n", "\n">> \o snips[i].content)

\* the whole of module handed to exec
ExecutedWhole(snips) == Concatenate(snips, 1, <<>>)

\* module[2:], the text handed to exec
Executed(snips) == SubSeq(Concatenate(snips, 1, <<>>), 3, Len(Concatenate(snips, 1, <<>>)))

\* StdOut(self): the stream object made by the run at nesting depth k
StdOut(k) == <<"StdOut", k>>
IsStdOut(stream) == stream \in {StdOut(k) : k \in 1..(MaxNesting + 1)}

\* the namespace with the demo and popup bindings left as they are
clear_skipped(ns) == ns

\* the namespace replaced by an empty one
clear_all(ns) == NoValues

\* for name in ('demo', 'popup'): the binding is deleted when it holds an
\* instance of HasTraits
clear(ns) ==
    [k \in VarNames |-> IF k \in {"demo", "popup"} /\ ns[k] = "HasTraits"
                     THEN "unbound" ELSE ns[k]]

\* the namespaces exec can leave: each name keeps its value or gets one of
\* the bindings the lab's code makes
Executions(ns) ==
    {n2 \in [VarNames -> Kinds \cup {"unbound"}] :
        \A k \in VarNames : n2[k] = ns[k] \/ <<k, n2[k]>> \in binds}

\* exec(module[2:], values, values)
exec == \E ns \in Executions(values) : values' = ns

\* run_code_begin keeping the message and the output of the run before
run_code_begin_kept ==
    /\ values' = clear(values)
    /\ snippets' = AssignStartLines(snippets, 1, 1)
    /\ frames' = Append(frames, [stdout |-> sys_stdout, stderr |-> sys_stderr])
    /\ sys_stdout' = StdOut(Len(frames) + 1)
    /\ sys_stderr' = StdOut(Len(frames) + 1)
    /\ UNCHANGED <<message, output, demo, snippet, last_exit, fs, root, tutor_path,
                   sf, binds, uiVars>>

\* run_code up to exec
run_code_begin ==
    /\ values' = clear(values)
    /\ snippets' = AssignStartLines(snippets, 1, 1)
    /\ message' = <<>>
    /\ output' = <<>>
    /\ frames' = Append(frames, [stdout |-> sys_stdout, stderr |-> sys_stderr])
    /\ sys_stdout' = StdOut(Len(frames) + 1)
    /\ sys_stderr' = StdOut(Len(frames) + 1)
    /\ UNCHANGED <<demo, snippet, last_exit, fs, root, tutor_path, sf, binds, uiVars>>

\* run_code without its finally clause: the streams stay as they are
restore_skipped ==
    /\ frames' = SubSeq(frames, 1, Len(frames) - 1)
    /\ UNCHANGED <<sys_stdout, sys_stderr>>

\* the finally clause: sys.stdout, sys.stderr = stdout, stderr
restore ==
    /\ frames' = SubSeq(frames, 1, Len(frames) - 1)
    /\ sys_stdout' = frames[Len(frames)].stdout
    /\ sys_stderr' = frames[Len(frames)].stderr

\* the scan stopping at a start_line equal to line as well
RECURSIVE ScanFirst(_, _, _, _)
ScanFirst(snips, i, line, found) ==
    IF i > Len(snips) \/ snips[i].start_line >= line THEN found
    ELSE ScanFirst(snips, i + 1, line, i)

\* the scan of the SyntaxError handler from snippets[i]: the index of the
\* last CodeItem before the first whose start_line exceeds line
RECURSIVE Scan(_, _, _, _)
Scan(snips, i, line, found) ==
    IF i > Len(snips) \/ snips[i].start_line > line THEN found
    ELSE Scan(snips, i + 1, line, i)

\* line -= (snippet.start_line - 1)
LocalLine(snips, line) == line - (snips[Scan(snips, 1, line, 1)].start_line - 1)

\* the text handed to exec holds code that can fail
HasCode == \E i \in 1..Len(snippets) : \E k \in 1..Len(snippets[i].content) :
               snippets[i].content[k] = "x"

\* the line numbers a SyntaxError may report
Linenos == 0..(count(Executed(snippets)) + 2)

\* exec returns and the demo and popup values are handled
RunSucceeds ==
    /\ frames # <<>>
    /\ exec
    /\ demo' = IF values'["demo"] = "HasTraits" THEN "demo" ELSE "NoDemo"
    /\ restore
    /\ last_exit' = <<"success">>
    /\ UNCHANGED <<snippets, snippet, message, output, fs, root, tutor_path, sf, binds, uiVars>>

\* the handler's branch for a line number: the CodeItem is highlighted and
\* selected, then the message is formatted
highlight(line) ==
    /\ snippets' = [snippets EXCEPT ![Scan(snippets, 1, line, 1)].selected_line =
                                        LocalLine(snippets, line)]
    /\ snippet' = Scan(snippets, 1, line, 1)

\* exec raises a SyntaxError with a line number and a message
RunSyntaxError ==
    /\ frames # <<>>
    /\ HasCode
    /\ exec
    /\ UNCHANGED demo
    /\ \E line \in Linenos :
          /\ highlight(line)
          /\ message' = <<"Msg", "in column", "of line", LocalLine(snippets, line)>>
          /\ last_exit' = <<"syntax", line>>
    /\ restore
    /\ UNCHANGED <<output, fs, root, tutor_path, sf, binds, uiVars>>

\* exec raises a SyntaxError whose lineno is None
RunSyntaxNoLine ==
    /\ frames # <<>>
    /\ HasCode
    /\ exec
    /\ UNCHANGED demo
    /\ message' = <<"Msg">>
    /\ restore
    /\ last_exit' = <<"syntax">>
    /\ UNCHANGED <<snippets, snippet, output, fs, root, tutor_path, sf, binds, uiVars>>

\* RunRuntimeError with the demo pane emptied by the failure
RunRuntimeErrorShown ==
    /\ frames # <<>>
    /\ HasCode
    /\ exec
    /\ demo' = "NoDemo"
    /\ output' = IF IsStdOut(sys_stderr) THEN Append(output, "trace") ELSE output
    /\ restore
    /\ last_exit' = <<"runtime">>
    /\ UNCHANGED <<snippets, snippet, message, fs, root, tutor_path, sf, binds, uiVars>>

\* exec raises anything else: traceback.print_exc() writes to sys.stderr,
\* which adds to the lab's output when it is a StdOut
RunRuntimeError ==
    /\ frames # <<>>
    /\ HasCode
    /\ exec
    /\ UNCHANGED demo
    /\ output' = IF IsStdOut(sys_stderr) THEN Append(output, "trace") ELSE output
    /\ restore
    /\ last_exit' = <<"runtime">>
    /\ UNCHANGED <<snippets, snippet, message, fs, root, tutor_path, sf, binds, uiVars>>

\* exec returns and the demo pane is set, then popup.edit_traits raises: the
\* trace is printed as for any other exception
RunPopupFails ==
    /\ frames # <<>>
    /\ HasCode
    /\ exec
    /\ values'["popup"] = "HasTraits"
    /\ demo' = IF values'["demo"] = "HasTraits" THEN "demo" ELSE "NoDemo"
    /\ output' = IF IsStdOut(sys_stderr) THEN Append(output, "trace") ELSE output
    /\ restore
    /\ last_exit' = <<"runtime", "popup">>
    /\ UNCHANGED <<snippets, snippet, message, fs, root, tutor_path, sf, binds, uiVars>>

\* exec raises a SyntaxError whose msg is None: excp.msg.capitalize() raises
\* in the handler, after the highlighting when there is a line number, and
\* the exception leaves run_code
RunHandlerFails ==
    /\ frames # <<>>
    /\ HasCode
    /\ exec
    /\ UNCHANGED demo
    /\ \/ \E line \in Linenos : highlight(line) /\ last_exit' = <<"escaped", line>>
       \/ UNCHANGED <<snippets, snippet>> /\ last_exit' = <<"escaped">>
    /\ restore
    /\ UNCHANGED <<message, output, fs, root, tutor_path, sf, binds, uiVars>>

\* the code being run rebinds sys.stdout
UserRedirect ==
    /\ frames # <<>>
    /\ sys_stdout # <<"user">>
    /\ sys_stdout' = <<"user">>
    /\ UNCHANGED <<sys_stderr, frames, snippets, snippet, message, output,
                   last_exit, values, demo, fs, root, tutor_path, sf, binds, uiVars>>

\* one lab, run once
InitRemap ==
    /\ fs = {}
    /\ root = NoSection
    /\ tutor_path = FALSE
    /\ IdleFactory
    /\ snippets \in Labs
    /\ snippet = 0
    /\ message = <<>>
    /\ output = <<>>
    /\ sys_stdout = <<"stdout">>
    /\ sys_stderr = <<"stderr">>
    /\ frames = <<>>
    /\ last_exit = <<"none">>
    /\ values = NoValues
    /\ binds = {}
    /\ demo = "NoDemo"
    /\ IdleUi

RunOnce == frames = <<>> /\ last_exit = <<"none">> /\ run_code_begin

NextRemap ==
    \/ RunOnce
    \/ RunSucceeds
    \/ RunSyntaxError
    \/ RunSyntaxNoLine
    \/ RunRuntimeError
    \/ RunHandlerFails

SpecRemap == InitRemap /\ [][NextRemap]_vars

\* the labs of the runs that nest
SampleLabs ==
    {lab \in Labs : \A i \in 1..Len(lab) : lab[i].content \in {<<"x">>, <<"x", "\n">>}}

InitRun ==
    /\ fs = {}
    /\ root = NoSection
    /\ tutor_path = FALSE
    /\ IdleFactory
    /\ snippets \in SampleLabs
    /\ snippet = 0
    /\ message = <<>>
    /\ output = <<>>
    /\ sys_stdout = <<"stdout">>
    /\ sys_stderr = <<"stderr">>
    /\ frames = <<>>
    /\ last_exit = <<"none">>
    /\ values = NoValues
    /\ binds = {}
    /\ demo = "NoDemo"
    /\ IdleUi

\* run_code called from the user interface, or from the code a run executes
RunBegin == Len(frames) < MaxNesting /\ run_code_begin

NextRun ==
    \/ RunBegin
    \/ UserRedirect
    \/ RunSucceeds
    \/ RunSyntaxError
    \/ RunSyntaxNoLine
    \/ RunRuntimeError
    \/ RunHandlerFails

SpecRun == InitRun /\ [][NextRun]_vars

\* a lab whose code can bind each name to a value of each kind, run again
\* and again
InitValues ==
    /\ fs = {}
    /\ root = NoSection
    /\ tutor_path = FALSE
    /\ IdleFactory
    /\ snippets \in {lab \in SampleLabs : Len(lab) = 1}
    /\ snippet = 0
    /\ message = <<>>
    /\ output = <<>>
    /\ sys_stdout = <<"stdout">>
    /\ sys_stderr = <<"stderr">>
    /\ frames = <<>>
    /\ last_exit = <<"none">>
    /\ values = NoValues
    /\ binds = VarNames \X Kinds
    /\ demo = "NoDemo"
    /\ IdleUi

\* the run button: _run_changed calls run_code
RunPressed == frames = <<>> /\ run_code_begin

NextValues ==
    \/ RunPressed
    \/ RunSucceeds
    \/ RunSyntaxError
    \/ RunSyntaxNoLine
    \/ RunRuntimeError
    \/ RunPopupFails
    \/ RunHandlerFails

SpecValues == InitValues /\ [][NextValues]_vars

-----------------------------------------------------------------------------
(* The view of a section made by a factory.                                *)

\* a factory holding items, each code item with one line of code
InitView ==
    /\ fs = {}
    /\ root = NoSection
    /\ tutor_path = FALSE
    /\ sf \in [descriptions : SeedDescriptions, snippets : SeedSnippets,
               done : {FALSE}, section : {NoSection}]
    /\ snippets = [i \in 1..Len(sf.snippets) |-> Snippet(<<"x">>)]
    /\ snippet = 0
    /\ message = <<>>
    /\ output = <<>>
    /\ sys_stdout = <<"stdout">>
    /\ sys_stderr = <<"stderr">>
    /\ frames = <<>>
    /\ last_exit = <<"none">>
    /\ values = NoValues
    /\ binds = {}
    /\ demo = "NoDemo"
    /\ IdleUi

\* the classes whose view has handler=LabHandler
LabKinds == {"Lab", "Lesson", "Demo"}

\* the view of the section is made: LabHandler.init is entered
LabHandlerInit ==
    /\ sf.done
    /\ sf.section.kind \in LabKinds
    /\ view = "closed"
    /\ view' = "init"
    /\ UNCHANGED <<fs, root, tutor_path, sf, runVars, proc, css, section>>

\* LabHandler.init: if info.object.auto_run: info.object.run_code()
AutoRun ==
    /\ view = "init"
    /\ sf.section.auto_run
    /\ frames = <<>>
    /\ last_exit = <<"none">>
    /\ run_code_begin

\* LabHandler.init returns, after the run if there was one, and the view is
\* shown
InitReturns ==
    /\ view = "init"
    /\ frames = <<>>
    /\ sf.section.auto_run => (last_exit # <<"none">> /\ last_exit[1] # "escaped")
    /\ view' = "open"
    /\ UNCHANGED <<fs, root, tutor_path, sf, runVars, proc, css, section>>

\* the run button of the view
RunButton == view = "open" /\ RunPressed

NextView ==
    \/ FactoryPathChanged
    \/ LabHandlerInit
    \/ AutoRun
    \/ InitReturns
    \/ RunButton
    \/ RunSucceeds
    \/ RunSyntaxError
    \/ RunSyntaxNoLine
    \/ RunRuntimeError
    \/ RunHandlerFails

SpecView == InitView /\ [][NextView]_vars

-----------------------------------------------------------------------------
(* Navigation: the previous, parent, next and reload buttons of the tutor. *)

NavUniverse == {d_0000_m, d_0001_a, d_0005_n}
NavWorlds == {d \in SUBSET NavUniverse : Cardinality(d) <= MaxEntries}

\* the while loop of _get_next_section: the section after the subsection of
\* parent that is, or holds, the section at addr
RECURSIVE next_after(_, _)
next_after(tree, addr) ==
    IF addr = <<>> THEN NoAddr
    ELSE LET parent == Front(addr)
             index == addr[Len(addr)]
         IN  IF index < Len(NodeAt(tree, parent).subs)
             THEN parent \o <<index + 1>>
             ELSE next_after(tree, parent)

\* _get_next_section without the while loop: only the section's own parent
\* is asked for the following subsection
get_next_section_flat(tree, addr) ==
    IF Len(NodeAt(tree, addr).subs) > 0 THEN addr \o <<1>>
    ELSE IF addr = <<>> THEN NoAddr
    ELSE IF addr[Len(addr)] < Len(NodeAt(tree, Front(addr)).subs)
    THEN Front(addr) \o <<addr[Len(addr)] + 1>>
    ELSE NoAddr

\* Tutor._get_next_section, of the section at addr
get_next_section(tree, addr) ==
    IF Len(NodeAt(tree, addr).subs) > 0 THEN addr \o <<1>>
    ELSE next_after(tree, addr)

\* while len(previous.subsections) > 0: previous = previous.subsections[-1]
RECURSIVE last_of(_, _)
last_of(tree, addr) ==
    LET n == Len(NodeAt(tree, addr).subs)
    IN  IF n > 0 THEN last_of(tree, addr \o <<n>>) ELSE addr

\* _get_previous_section stopping at the subsection before the section
previous_sibling(tree, addr) ==
    IF addr = <<>> THEN NoAddr
    ELSE IF addr[Len(addr)] > 1
    THEN Front(addr) \o <<addr[Len(addr)] - 1>>
    ELSE Front(addr)

\* Tutor._get_previous_section, of the section at addr
get_previous_section(tree, addr) ==
    IF addr = <<>> THEN NoAddr
    ELSE IF addr[Len(addr)] > 1
    THEN last_of(tree, Front(addr) \o <<addr[Len(addr)] - 1>>)
    ELSE Front(addr)

\* the subsections _get_previous_section reads below addr have been computed
RECURSIVE LoadedDown(_, _)
LoadedDown(tree, addr) ==
    LET node == NodeAt(tree, addr)
    IN  /\ node.loaded
        /\ Len(node.subs) > 0 => LoadedDown(tree, addr \o <<Len(node.subs)>>)

\* next_section and previous_section are cached properties the view reads
\* for enabled_when; reading them reads subsections (GetSubsections)
NextSectionRead == section # NoAddr /\ NodeAt(root, section).loaded
PreviousSectionRead ==
    /\ section # NoAddr
    /\ (section # <<>> /\ section[Len(section)] > 1) =>
           LoadedDown(root, Front(section) \o <<section[Len(section)] - 1>>)

\* Tutor._next_changed; enabled_when='next_section is not None'
NextChanged ==
    /\ NextSectionRead
    /\ get_next_section(root, section) # NoAddr
    /\ section' = get_next_section(root, section)
    /\ UNCHANGED <<outlineVars, sf, runVars, proc, view, css>>

\* Tutor._previous_changed; enabled_when='previous_section is not None'
PreviousChanged ==
    /\ PreviousSectionRead
    /\ get_previous_section(root, section) # NoAddr
    /\ section' = get_previous_section(root, section)
    /\ UNCHANGED <<outlineVars, sf, runVars, proc, view, css>>

\* Tutor._parent_changed; enabled_when='(section is not None) and
\* (section.parent is not None)'
ParentChanged ==
    /\ section # NoAddr
    /\ section # <<>>
    /\ section' = Front(section)
    /\ UNCHANGED <<outlineVars, sf, runVars, proc, view, css>>

\* Tutor._reload_changed
ReloadChanged == tutor_path /\ InitTutor

\* Tutor.path is set once, when the tutor is made
PathChanged == ~tutor_path /\ InitTutor

InitNav ==
    /\ fs \in NavWorlds
    /\ root = NoSection
    /\ tutor_path = FALSE
    /\ IdleFactory
    /\ IdleRun
    /\ IdleUi

\* one entry of the root directory appears or disappears
NavDirectoryChanged ==
    /\ \E e \in NavUniverse :
          /\ fs' = IF e \in fs THEN fs \ {e} ELSE fs \cup {e}
          /\ fs' \in NavWorlds
    /\ UNCHANGED <<root, tutor_path, sf, runVars, uiVars>>

NextNav ==
    \/ PathChanged
    \/ ReloadChanged
    \/ GetSubsections
    \/ NextChanged
    \/ PreviousChanged
    \/ ParentChanged
    \/ NavDirectoryChanged

SpecNav == InitNav /\ [][NextNav]_vars

-----------------------------------------------------------------------------
(* Properties of the outline builder.                                      *)

\* an enumeration that lists every directory in the fixed order
CanonEnum == [at |-> << <<"*">> >>, top |-> <<>>, rev |-> FALSE]

\* the extensions SectionFactory has a handler for
HandledExts == OneHtmlItemExts \cup
    {<<"p","y">>, <<"t","x","t">>, <<"h","t","m">>, <<"h","t","m","l">>,
     <<"u","r","l">>, <<"r","s","t">>, <<"s","w","f">>, <<"d","e","s","c">>}

Recognized(name) ==
    Len(splitext(name).ext) > 1 /\ LowerStr(Tail(splitext(name).ext)) \in HandledExts

\* a directory with no recognized file and no subdirectory
NoContent(d) == \A e \in d : ~e.isdir /\ ~Recognized(e.name)

\* the directory at path yields no description item and no code item
Itemless(path) ==
    LET st == collect(fs, CanonEnum, path, <<>>, <<>>, <<>>, <<>>)
    IN  st.descriptions = <<>> /\ st.snippets = <<>>

\* the section at address a was made for a directory of its own, not for a
\* group of files of its parent's directory
DirBuilt(a) ==
    a = <<>> \/ NodeAt(root, a).path # NodeAt(root, SubSeq(a, 1, Len(a) - 1)).path

Shape(sec) == [kind |-> sec.kind, title |-> sec.title, path |-> sec.path]
Shapes(secs) == [i \in 1..Len(secs) |-> Shape(secs[i])]

Matches(name) == dir_pat1(name).matched \/ dir_pat2(name).matched
NumberOf(name) ==
    ParseFloat(IF dir_pat1(name).matched THEN dir_pat1(name).number
               ELSE dir_pat2(name).number)
Last(s) == s[Len(s)]

\* the directory at path yields a section
Yields(path) == IsSection(SectionFor(fs, CanonEnum, path, <<>>, <<>>, <<>>, <<>>))

\* C1: once the items are collected the class follows from them alone:
\* descriptions and code with a fragment not hidden give a Lesson,
\* descriptions and code all hidden a Demo, descriptions only a Lecture,
\* code only a Lab.
C1_KindByItems ==
    sf.done =>
        LET nd == Len(sf.descriptions)
            ns == Len(sf.snippets)
            visible == \E i \in 1..ns : ~sf.snippets[i].hidden
        IN  /\ (nd > 0 /\ ns > 0 /\ visible) => sf.section.kind = "Lesson"
            /\ (nd > 0 /\ ns > 0 /\ ~visible) => sf.section.kind = "Demo"
            /\ (nd > 0 /\ ns = 0) => sf.section.kind = "Lecture"
            /\ (nd = 0 /\ ns > 0) => sf.section.kind = "Lab"

\* a factory given two hidden fragments and a description has made a Demo
C1_Witness ==
    /\ sf.done
    /\ sf.section.kind = "Demo"
    /\ Len(sf.snippets) = 2
    /\ Len(sf.descriptions) > 0

\* C2 as claimed: a directory with no recognized file and no subdirectory
\* yields a Lecture with no children and no description.
C2_EmptyDirectoryYieldsLecture ==
    (tutor_path /\ NoContent(fs)) =>
        /\ root.kind = "Lecture"
        /\ root.subs = <<>>
        /\ root.descriptions = <<>>

\* C2 as amended: a directory with no recognized file and no subdirectory
\* yields no section, as the root and as a subdirectory alike.
C2_EmptyDirectoryYieldsNone ==
    /\ (tutor_path /\ NoContent(fs)) => ~IsSection(root)
    /\ \A a \in Addrs(root) :
          DirBuilt(a) => ~NoContent(DirAt(fs, NodeAt(root, a).path))

\* the tutor was pointed at a directory holding only an unrecognized file
C2_Witness ==
    /\ tutor_path
    /\ fs # {}
    /\ NoContent(fs)
    /\ ~IsSection(root)

NumberedAscending(n) ==
    /\ \A i \in 1..Len(n.subs) :
          /\ Len(n.subs[i].path) = Len(n.path) + 1
          /\ SubSeq(n.subs[i].path, 1, Len(n.path)) = n.path
          /\ isdir(fs, n.path, Last(n.subs[i].path))
          /\ Matches(Last(n.subs[i].path))
    /\ \A i, j \in 1..Len(n.subs) :
          i < j => /\ ~KeyLess(NumberOf(Last(n.subs[j].path)),
                               NumberOf(Last(n.subs[i].path)))
                   /\ n.subs[i].path # n.subs[j].path

IsChild(n, name) == \E i \in 1..Len(n.subs) : n.subs[i].path = Append(n.path, name)

\* C4 as claimed: without a manifest the children are the subdirectories
\* named NNNN_title or title_N.N, in ascending order of the number.
C4_ChildrenAreNumberedDirs ==
    \A a \in Addrs(root) :
        LET n == NodeAt(root, a)
        IN  (n.loaded /\ n.toc = <<>>) =>
                /\ NumberedAscending(n)
                /\ \A e \in DirAt(fs, n.path) :
                      (e.isdir /\ Matches(e.name)) => IsChild(n, e.name)

\* C4 as amended: without a manifest the children are the subdirectories
\* named NNNN_title or title_N.N that yield a section, in ascending order of
\* the number.
C4_ChildrenAreNumberedSections ==
    \A a \in Addrs(root) :
        LET n == NodeAt(root, a)
        IN  (n.loaded /\ n.toc = <<>>) =>
                /\ NumberedAscending(n)
                /\ \A e \in DirAt(fs, n.path) :
                      (e.isdir /\ Matches(e.name) /\ Yields(Append(n.path, e.name)))
                          => IsChild(n, e.name)

\* the root's children are title_N.N, NNNN_title, title_N.N in that order
C4_Witness ==
    /\ IsSection(root)
    /\ root.loaded
    /\ root.toc = <<>>
    /\ Len(root.subs) = 3
    /\ dir_pat2(Last(root.subs[1].path)).matched
    /\ dir_pat1(Last(root.subs[2].path)).matched
    /\ ~dir_pat1(Last(root.subs[3].path)).matched
    /\ KeyLess(NumberOf(Last(root.subs[1].path)), NumberOf(Last(root.subs[2].path)))
    /\ KeyLess(NumberOf(Last(root.subs[2].path)), NumberOf(Last(root.subs[3].path)))

\* C5: the children of a section do not depend on the order in which the
\* directory is enumerated: any other enumeration gives the same sequence.
C5_ChildrenOrderDeterministic ==
    \A a \in Addrs(root) :
        LET n == NodeAt(root, a)
        IN  n.loaded =>
                \A e \in EnumsAt(fs, n.path) :
                    Shapes(get_subsections(fs, e, n.path, n.toc)) = Shapes(n.subs)

\* the names listed under the manifest entry item
GroupOf(n, item) ==
    {e.name : e \in {x \in DirAt(fs, n.path) :
                        splitext(x.name).root = SplitColon(item)[1]}}

\* the child c can be the section of the manifest entry item of n: the
\* directory that alone matches it, or a section of n's directory all of
\* whose items come from the files matching it
ChildOfEntry(n, c, item) ==
    /\ GroupOf(n, item) # {}
    /\ \/ /\ Len(c.path) = Len(n.path) + 1
          /\ GroupOf(n, item) = {Last(c.path)}
          /\ isdir(fs, n.path, Last(c.path))
       \/ /\ c.path = n.path
          /\ \A i \in 1..Len(c.descriptions) :
                c.descriptions[i].topics # <<>> \/ c.descriptions[i].src \in GroupOf(n, item)
          /\ \A i \in 1..Len(c.snippets) : c.snippets[i].src \in GroupOf(n, item)

\* the members of the set S of numbers in ascending order
RECURSIVE Ascending(_)
Ascending(S) == IF S = {} THEN <<>> ELSE <<Min(S)>> \o Ascending(S \ {Min(S)})

\* C6: with a manifest the children follow the manifest's order whatever the
\* order of enumeration, each child is the section of the directory entries
\* whose base name is its manifest entry's, and an entry that matches no
\* directory entry has no child.
C6_ManifestOrder ==
    \A a \in Addrs(root) :
        LET n == NodeAt(root, a)
        IN  (n.loaded /\ n.toc # <<>>) =>
                /\ \A e \in EnumsAt(fs, n.path) :
                      Shapes(get_subsections(fs, e, n.path, n.toc)) = Shapes(n.subs)
                /\ \E pick \in SUBSET (1..Len(n.toc)) :
                      /\ Cardinality(pick) = Len(n.subs)
                      /\ \A i \in 1..Len(n.subs) :
                            ChildOfEntry(n, n.subs[i], n.toc[Ascending(pick)[i]])

\* the root has a manifest of three entries; the first matches a directory,
\* the second a file, the third nothing; the children are the two sections
C6_Witness ==
    /\ IsSection(root)
    /\ root.loaded
    /\ Len(root.toc) = 3
    /\ Len(root.subs) = 2
    /\ Len(root.subs[1].path) = 1
    /\ root.subs[2].path = <<>>
    /\ GroupOf(root, root.toc[3]) = {}

-----------------------------------------------------------------------------
(* Properties of running the code.                                         *)

\* the positions of text where a line starts
LineStarts(text) == {p \in 1..Len(text) : p = 1 \/ text[p - 1] = "\n"}

\* the number of lines of text
Lines(text) == Cardinality(LineStarts(text))

\* the line of text that holds position p
LineAt(text, p) == Cardinality({q \in LineStarts(text) : q <= p})

RECURSIVE Sum(_, _)
Sum(f, n) == IF n = 0 THEN 0 ELSE f[n] + Sum(f, n - 1)

EndsLine(text) == text = <<>> \/ text[Len(text)] = "\n"

\* start lines have been assigned: a run has begun
Started == frames # <<>> \/ last_exit # <<"none">>

\* C7 as claimed: the start line of a fragment is one more than the line
\* counts of the fragments before it plus two separator lines for each.
C7_StartLineByLineCount ==
    Started =>
        \A i \in 1..Len(snippets) :
            snippets[i].start_line =
                1 + Sum([j \in 1..(i - 1) |-> Lines(snippets[j].content) + 2], i - 1)

\* C7 as amended: the start line of a fragment is one more than the sum,
\* over the fragments before it, of the number of newline characters plus
\* two: a fragment before it counts its lines plus two when it ends with a
\* newline (or is empty) and its lines plus one when it does not.
C7_StartLineByNewlines ==
    Started =>
        \A i \in 1..Len(snippets) :
            snippets[i].start_line =
                1 + Sum([j \in 1..(i - 1) |->
                            IF EndsLine(snippets[j].content)
                            THEN Lines(snippets[j].content) + 2
                            ELSE Lines(snippets[j].content) + 1], i - 1)

\* fragments of 3 and 5 lines that end with a newline: the second starts at 6
C7_Witness ==
    /\ Started
    /\ Len(snippets) = 2
    /\ Lines(snippets[1].content) = 3
    /\ Lines(snippets[2].content) = 5
    /\ EndsLine(snippets[1].content)
    /\ snippets[1].start_line = 1
    /\ snippets[2].start_line = 6

\* the run that returned last ended with a SyntaxError reporting a line
SyntaxAt == Len(last_exit) = 2 /\ last_exit[1] = "syntax"

\* the fragment with the greatest start line not above line, the first if
\* there is none
Greatest(line) ==
    IF \A i \in 1..Len(snippets) : snippets[i].start_line > line THEN 1
    ELSE CHOOSE i \in 1..Len(snippets) :
            /\ snippets[i].start_line <= line
            /\ \A j \in 1..Len(snippets) :
                  snippets[j].start_line <= line =>
                      snippets[j].start_line <= snippets[i].start_line

\* C8: after a syntax failure reported at line L the selected fragment is
\* the one with the greatest start line not above L (the first if there is
\* none), its highlighted line and the line of the message are
\* L - (start line - 1); a failure at the second fragment's start line + 4,
\* a line of the second fragment, gives line 5 of the second fragment.
C8_RemapToFragment ==
    SyntaxAt =>
        /\ snippet = Greatest(last_exit[2])
        /\ snippets[snippet].selected_line =
              last_exit[2] - (snippets[snippet].start_line - 1)
        /\ message[Len(message)] = snippets[snippet].selected_line
        /\ \A i \in 1..Len(snippets) :
              i # snippet => snippets[i].selected_line = 0
        /\ ( /\ Len(snippets) >= 2
             /\ last_exit[2] = snippets[2].start_line + 4
             /\ Lines(snippets[2].content) >= 5 )
           => (snippet = 2 /\ snippets[2].selected_line = 5)

\* a failure at the second fragment's start line + 4 was reported
C8_Witness ==
    /\ SyntaxAt
    /\ Len(snippets) = 2
    /\ Lines(snippets[2].content) >= 5
    /\ last_exit[2] = snippets[2].start_line + 4
    /\ snippet = 2
    /\ snippets[2].selected_line = 5

\* where the content of fragment i begins in module: after the fragments
\* before it and its own separator
PlaceInModule(i) == Len(Concatenate(SubSeq(snippets, 1, i - 1), 1, <<>>)) + 2

\* the line of the executed text that holds position p of fragment i
ExecutedLine(i, p) == LineAt(Executed(snippets), (PlaceInModule(i) - 2) + p)

\* C9: a syntax failure reported at the line of the executed text that
\* holds a position of fragment i is attributed to fragment i, at the line
\* of fragment i that holds the position.
C9_RoundTrip ==
    SyntaxAt =>
        \A i \in 1..Len(snippets) :
            \A p \in 1..Len(snippets[i].content) :
                last_exit[2] = ExecutedLine(i, p) =>
                    /\ snippet = i
                    /\ snippets[i].selected_line = LineAt(snippets[i].content, p)

\* a failure on the third line of the first of two fragments, which does
\* not end with a newline
C9_Witness ==
    /\ SyntaxAt
    /\ Len(snippets) = 2
    /\ ~EndsLine(snippets[1].content)
    /\ Lines(snippets[1].content) = 3
    /\ last_exit[2] = ExecutedLine(1, Len(snippets[1].content))
    /\ snippet = 1
    /\ snippets[1].selected_line = 3

\* C10: a run_code call that returns, however it ends, leaves sys.stdout
\* and sys.stderr what they were when it was called, the nested calls
\* included; with no call active they are the streams of the process.
C10_StreamsRestored ==
    [][ /\ Len(frames') > Len(frames) =>
              frames'[Len(frames')] = [stdout |-> sys_stdout, stderr |-> sys_stderr]
        /\ Len(frames') < Len(frames) =>
              /\ sys_stdout' = frames[Len(frames)].stdout
              /\ sys_stderr' = frames[Len(frames)].stderr
              /\ frames' = <<>> => (sys_stdout' = <<"stdout">> /\ sys_stderr' = <<"stderr">>)
      ]_vars

\* a nested call left through its handler and the outer call has its
\* streams again, the sys.stdout it had rebound
C10_Witness ==
    /\ Len(frames) = 1
    /\ last_exit = <<"escaped">>
    /\ sys_stdout = <<"user">>
    /\ sys_stderr = StdOut(1)

\* a run_code call begins in this step
Begins == Len(frames') > Len(frames)

\* C11 as claimed: when a run begins neither demo nor popup is bound any
\* more, whatever kind of value an earlier run bound it to.
C11_ResultBindingsCleared ==
    [][Begins => (values'["demo"] = "unbound" /\ values'["popup"] = "unbound")]_vars

\* C11 as amended: when a run begins neither demo nor popup is bound to an
\* instance of HasTraits any more; a binding of demo or popup to a value of
\* another kind stays.
C11_TraitsBindingsCleared ==
    [][Begins =>
          \A k \in {"demo", "popup"} :
              /\ values'[k] # "HasTraits"
              /\ values[k] # "HasTraits" => values'[k] = values[k]]_vars

\* an earlier run succeeded with demo bound to an instance of HasTraits,
\* which the pane shows, and the next run has begun without the binding
C11_Witness ==
    /\ Len(frames) = 1
    /\ last_exit = <<"success">>
    /\ demo = "demo"
    /\ values["demo"] = "unbound"

\* C12: a name other than demo and popup that is bound when a run ends is
\* bound to the same value when the next run begins, demo and popup are
\* unbound or as they were, nothing but a run changes the namespace, and no
\* step empties a namespace that binds another name than demo and popup.
C12_NamespacePersists ==
    [][ /\ Begins =>
              \A k \in VarNames :
                  \/ values'[k] = values[k]
                  \/ k \in {"demo", "popup"} /\ values'[k] = "unbound"
        /\ Len(frames') = Len(frames) => values' = values
        /\ (values["x"] # "unbound") => (values' # NoValues)
      ]_vars

\* a run that failed part-way bound x, and the next run has begun with x
\* still bound
C12_Witness ==
    /\ Len(frames) = 1
    /\ last_exit = <<"runtime">>
    /\ values["x"] = "other"

\* a run of the lab ends
Ends == Len(frames') < Len(frames)

\* C13: a run that fails with a SyntaxError without a line number, or with
\* any other exception, returns to its caller, leaves the selected snippet
\* and every selected_line as they were, and reports the failure: the
\* message is not empty for the SyntaxError and the output holds the trace
\* otherwise; no failing run ends with the message and the output both empty
C13_FailureReported ==
    [][Ends =>
         /\ last_exit' \in {<<"syntax">>, <<"runtime">>, <<"escaped">>} =>
               /\ last_exit' # <<"escaped">>
               /\ snippet' = snippet
               /\ \A i \in 1..Len(snippets) :
                      snippets'[i].selected_line = snippets[i].selected_line
               /\ last_exit' = <<"syntax">> => message' # <<>>
               /\ last_exit' = <<"runtime">> =>
                      \E k \in 1..Len(output') : output'[k] = "trace"
         /\ last_exit' # <<"success">> => ~(message' = <<>> /\ output' = <<>>)]_vars

\* C14: the subsections of a section are computed once: a section that has
\* them keeps the same ones, whatever happens to its directory, in every
\* step but init_tutor, which builds new sections
C14_SubsectionsCached ==
    [][~InitTutor =>
         \A addr \in Addrs(root) :
            NodeAt(root, addr).loaded =>
               /\ addr \in Addrs(root')
               /\ NodeAt(root', addr).loaded
               /\ Shapes(NodeAt(root', addr).subs) = Shapes(NodeAt(root, addr).subs)]_vars

\* the root has its subsections and its directory no longer yields them
C14_Witness ==
    /\ IsSection(root)
    /\ root.loaded
    /\ root.subs # <<>>
    /\ Shapes(get_subsections(fs, CanonEnum, <<>>, root.toc)) # Shapes(root.subs)

\* a Lecture made for its subsections, which it has from the start
IsTopics(sec) ==
    /\ Len(sec.descriptions) > 0
    /\ sec.descriptions[Len(sec.descriptions)].topics # <<>>

\* what init_tutor builds, without the subsections computed later on access
RECURSIVE Structure(_)
Structure(sec) ==
    IF ~IsSection(sec) THEN <<>>
    ELSE << Shape(sec),
            IF IsTopics(sec) THEN [i \in 1..Len(sec.subs) |-> Structure(sec.subs[i])]
            ELSE <<>> >>

\* C15: a directory that has been made into a tree and has not changed is
\* made into a structurally identical tree when init_tutor runs again
C15_ClassifyTwiceIdentical ==
    [][(tutor_path /\ IsSection(root)) => Structure(root') = Structure(root)]_vars

\* C16: the launcher prints the usage text and exits with a nonzero status
\* when it is given more than one argument and when the root path yields
\* no section; in the second case the tutor's window is never opened
C16_UsageAndNonzeroExit ==
    /\ proc.argv > 2 => (proc.usage /\ proc.exit > 0)
    /\ (proc.argv \in 1..2 /\ tutor_path /\ ~IsSection(root)) =>
          /\ ~proc.window
          /\ proc.exit # -1 => (proc.usage /\ proc.exit > 0)

\* the files of the directory d without those that cannot be read
RECURSIVE Readable(_)
Readable(d) ==
    {e \in d : ~e.isdir /\ e.readable} \cup
    {Dir(e.name, Readable(e.dir)) : e \in {x \in d : x.isdir}}

\* the section has an item made from the file called name
HasItemOf(sec, name) ==
    \/ \E i \in 1..Len(sec.descriptions) : sec.descriptions[i].src = name
    \/ \E i \in 1..Len(sec.snippets) : sec.snippets[i].src = name

\* C17: a file that cannot be read gives its section no description item
\* and no code item, and the section made from a directory is of the class
\* it would be without the files that cannot be read
C17_UnreadableOmitted ==
    tutor_path =>
        /\ \A addr \in Addrs(root) :
              \A e \in DirAt(fs, NodeAt(root, addr).path) :
                 (~e.isdir /\ ~e.readable) => ~HasItemOf(NodeAt(root, addr), e.name)
        /\ root.kind = SectionFor(Readable(fs), CanonEnum, <<>>, <<>>,
                                  title_for(splitext(RootName).root), <<>>, <<>>).kind

\* the path that climbs n directories to a style sheet
Climb(n) == [i \in 1..n |-> <<".", ".">>] \o <<default_css>>

\* the lengths of the prefixes of path that name a directory with a style
\* sheet
SheetDepths(path) ==
    {k \in 0..Len(path) : isfile(fs, SubSeq(path, 1, k), default_css)}

\* C19: the css_path of a section is the path to the style sheet of the
\* nearest directory that has one, among the section's own directory and
\* those above it, climbing one level for each directory in between, and is
\* empty when none of them has a style sheet
C19_NearestStyleSheet ==
    \A c \in css :
        LET path == NodeAt(root, c.addr).path
        IN  IF SheetDepths(path) = {} THEN c.path = <<>>
            ELSE c.path = Climb(Len(path) - Max(SheetDepths(path)))

\* a section with its own style sheet under a root that has one, and a
\* subsection that takes the section's
C19_Witness ==
    /\ [addr |-> <<>>, path |-> Climb(0)] \in css
    /\ [addr |-> <<1>>, path |-> Climb(0)] \in css
    /\ [addr |-> <<1, 1>>, path |-> Climb(1)] \in css
    /\ Len(NodeAt(root, <<1, 1>>).path) = 2

\* the description files of the directory d: those given to _add_desc_item
DescFiles(d) ==
    {e \in d : /\ ~e.isdir
               /\ Len(splitext(e.name).ext) > 1
               /\ LowerStr(Tail(splitext(e.name).ext)) = <<"d","e","s","c">>}

\* the files of d whose base name is the name of the table of contents
\* entry item
FilesOfEntry(d, item) ==
    {e \in d : ~e.isdir /\ splitext(e.name).root = Strip(SplitColon(item)[1])}

\* C20: the section of a directory with a description file has the file's
\* first useful line as its title and the other useful lines, in order, as
\* its table of contents; its subsections are found from them, and no file
\* named by an entry gives the section an item of its own
C20_DescriptionFile ==
    (tutor_path /\ IsSection(root)) =>
        \A e \in DescFiles(fs) :
            LET lines == UsefulLines(e.lines)
            IN  lines # <<>> =>
                   /\ root.title = lines[1]
                   /\ root.toc = Tail(lines)
                   /\ root.loaded =>
                         Shapes(root.subs) =
                            Shapes(get_subsections(fs, CanonEnum, <<>>, Tail(lines)))
                   /\ \A i \in 1..Len(root.toc) :
                         \A f \in FilesOfEntry(fs, root.toc[i]) : ~HasItemOf(root, f.name)

\* C18: a Demo has auto_run set and a Lesson or Lab made by the factory has
\* not; a run begins while the view is initialised only if auto_run is
\* set, the view of a section with auto_run is shown after a run and that
\* of a section without it before any, and every other run begins with the
\* run button of the shown view
C18_AutoRun ==
    /\ [](sf.done =>
            /\ sf.section.kind = "Demo" => sf.section.auto_run
            /\ sf.section.kind \in {"Lesson", "Lab"} => ~sf.section.auto_run)
    /\ [][/\ Begins => \/ view = "init" /\ sf.section.auto_run
                       \/ view = "open"
          /\ (view = "init" /\ view' = "open") =>
                (sf.section.auto_run <=> last_exit # <<"none">>)]_vars

\* the code of a Demo has run while its view was being initialised
C18_Witness ==
    /\ sf.section.kind = "Demo"
    /\ view = "init"
    /\ frames = <<>>
    /\ last_exit = <<"success">>

\* how the run that returned last ended
Succeeded == last_exit = <<"success">>
Failed == last_exit[1] \in {"syntax", "runtime", "escaped"}

\* C21: a run begins only when no run is active and empties the message
\* and the output; it ends succeeded or failed, never both, with no run
\* active; and between runs the message and the output are those of the
\* run that ended last: nothing of the runs before it
C21_RunCycle ==
    /\ [](frames = <<>> =>
            /\ last_exit = <<"none">> => (message = <<>> /\ output = <<>>)
            /\ Succeeded => (message = <<>> /\ output = <<>>)
            /\ last_exit[1] = "syntax" => (message # <<>> /\ output = <<>>)
            /\ last_exit = <<"runtime">> => (message = <<>> /\ output = <<"trace">>)
            /\ last_exit[1] = "escaped" => (message = <<>> /\ output = <<>>))
    /\ [][/\ Begins => (frames = <<>> /\ message' = <<>> /\ output' = <<>>)
          /\ Ends => (frames' = <<>> /\ (Succeeded' # Failed'))]_vars

\* a run that failed with a traceback after an earlier run had failed with
\* a SyntaxError, whose snippet is still selected: its message is gone
C21_Witness ==
    /\ frames = <<>>
    /\ last_exit = <<"runtime">>
    /\ snippet # 0
    /\ message = <<>>
    /\ output = <<"trace">>

\* the directory entries named by the table of contents entry item are
\* files that no handler takes
Unhandled(n, item) ==
    /\ GroupOf(n, item) # {}
    /\ \A name \in GroupOf(n, item) : isfile(fs, n.path, name) /\ ~Recognized(name)

\* C22: a table of contents entry that names only files giving no item has
\* no section: the root's subsections are those it would have without
\* these files, whatever else its directory holds
C22_EntryDropped ==
    (IsSection(root) /\ root.loaded /\ root.toc # <<>>) =>
        \A i \in 1..Len(root.toc) :
            Unhandled(root, root.toc[i]) =>
                Shapes(root.subs) =
                    Shapes(get_subsections({e \in fs : e.name \notin GroupOf(root, root.toc[i])},
                                           CanonEnum, <<>>, root.toc))

\* every subsections property of the tree has been read
AllLoaded == \A a \in Addrs(root) : NodeAt(root, a).loaded

\* C23: next and previous are inverse steps of one walk of the tree: the
\* previous section of the next section of s is s, the next section of the
\* previous section of s is s, and the root has no previous section.
C23_NextPreviousInverse ==
    (IsSection(root) /\ AllLoaded) =>
        /\ get_previous_section(root, <<>>) = NoAddr
        /\ \A s \in Addrs(root) :
              LET n == get_next_section(root, s)
                  p == get_previous_section(root, s)
              IN  /\ n # NoAddr => get_previous_section(root, n) = s
                  /\ p # NoAddr => get_next_section(root, p) = s

\* the current section follows a chapter with two sections: its previous
\* section is the chapter's last section
C23_Witness ==
    /\ IsSection(root)
    /\ AllLoaded
    /\ Len(root.subs) = 3
    /\ section = <<2>>
    /\ get_previous_section(root, section) = <<1, 2>>
    /\ get_next_section(root, <<1, 2>>) = section

\* the nodes below and at addr, parents before their children and siblings
\* in the order of subsections
RECURSIVE PreOrder(_, _, _)
PreOrder(tree, addr, i) ==
    IF i = 0 THEN <<addr>> \o PreOrder(tree, addr, 1)
    ELSE IF i > Len(NodeAt(tree, addr).subs) THEN <<>>
    ELSE PreOrder(tree, addr \o <<i>>, 0) \o PreOrder(tree, addr, i + 1)

\* the sections shown when next is pressed at most presses times from addr
RECURSIVE Walk(_, _, _)
Walk(tree, addr, presses) ==
    IF get_next_section(tree, addr) = NoAddr \/ presses = 0 THEN <<addr>>
    ELSE <<addr>> \o Walk(tree, get_next_section(tree, addr), presses - 1)

\* C24: pressing next from the root shows every node of the tree once,
\* parents before their children and siblings in child order, and ends
\* at a node without a next section after one press less than there are
\* nodes.
C24_NextWalksPreOrder ==
    (IsSection(root) /\ AllLoaded) =>
        Walk(root, <<>>, Cardinality(Addrs(root))) = PreOrder(root, <<>>, 0)

\* next has been pressed up to the last section of the last of three
\* chapters
C24_Witness ==
    /\ IsSection(root)
    /\ AllLoaded
    /\ Cardinality(Addrs(root)) = 8
    /\ section = <<3, 2>>
    /\ get_next_section(root, section) = NoAddr

\* C25: once there is a root the current section is a node of the tree
\* of the root, whatever buttons were pressed, and a reload that finds no
\* section leaves the root and the current section as they were.
C25_SectionInTree ==
    /\ [](IsSection(root) => (section # NoAddr /\ section \in Addrs(root)))
    /\ [][(tutor_path /\ ~Yields(<<>>) /\ ReloadChanged) =>
             (root' = root /\ section' = section)]_vars

\* the current section is below the root and a reload would find nothing
C25_Witness ==
    /\ IsSection(root)
    /\ tutor_path
    /\ ~Yields(<<>>)
    /\ Len(section) = 2

\* a file _add_py_item takes
IsPy(name) ==
    Len(splitext(name).ext) > 1 /\ LowerStr(Tail(splitext(name).ext)) = <<"p","y">>

\* how many items of items are made from the file name
ItemsOf(items, name) == Cardinality({i \in 1..Len(items) : items[i].src = name})

\* C26: every section made from files is a Lecture or a Lesson: each code
\* item is made from a source-code file, is not hidden and comes with a
\* description item of the same file, and each source-code file of a
\* directory without table of contents gives one of each.
C26_LectureOrLesson ==
    \A a \in Addrs(root) :
        LET n == NodeAt(root, a)
        IN  /\ n.kind \in {"Lecture", "Lesson"}
            /\ \A i \in 1..Len(n.snippets) :
                  /\ ~n.snippets[i].hidden
                  /\ IsPy(n.snippets[i].src)
                  /\ \E j \in 1..Len(n.descriptions) :
                        n.descriptions[j] = HTMLStrItem(n.snippets[i].src)
            /\ (DirBuilt(a) /\ n.toc = <<>>) =>
                  \A e \in DirAt(fs, n.path) :
                      (~e.isdir /\ IsPy(e.name)) =>
                          /\ ItemsOf(n.snippets, e.name) = 1
                          /\ ItemsOf(n.descriptions, e.name) = 1

\* a directory with a text file and a source-code file has become a Lesson
\* with two descriptions and one code item
C26_Witness ==
    /\ IsSection(root)
    /\ root.kind = "Lesson"
    /\ Len(root.descriptions) = 2
    /\ Len(root.snippets) = 1
    /\ ~root.snippets[1].hidden

\* what the demo pane is given for the namespace ns
Shown(ns) == IF ns["demo"] = "HasTraits" THEN "demo" ELSE "NoDemo"

\* C27 as claimed: when a run ends the demo pane shows the demo of the
\* namespace if the run succeeded, and what it showed before the run if the
\* run failed.
C27_OnlySuccessUpdatesDemo ==
    [][Ends => IF Succeeded' THEN demo' = Shown(values') ELSE demo' = demo]_vars

\* the run ended after exec had returned
ExecReturned == last_exit \in {<<"success">>, <<"runtime", "popup">>}

\* C27: when a run ends the demo pane shows the demo of the namespace if
\* exec returned, also when showing the popup failed afterwards, and what
\* it showed before the run if exec raised.
C27_ExecDecidesDemo ==
    [][Ends => IF ExecReturned' THEN demo' = Shown(values') ELSE demo' = demo]_vars

\* a run has failed in exec after the demo binding of the run before was
\* removed, and the pane still shows that demo
C27_Witness ==
    /\ frames = <<>>
    /\ last_exit = <<"runtime">>
    /\ values["demo"] = "unbound"
    /\ demo = "demo"

\* the section at address a was made from files of its parent's directory
FileBuilt(a) == a # <<>> /\ ~DirBuilt(a)

\* the sections _load_dirs finds in the directory at path
Discovered(path) == Shapes(get_subsections(fs, CanonEnum, path, <<>>))

\* C28 as claimed: a section made from the files matching a manifest entry
\* has its parent's directory as its path and an empty manifest, and its
\* subsections are the sections of the numbered subdirectories of the
\* parent's directory.
C28_FileBuiltChildren ==
    \A a \in Addrs(root) :
        FileBuilt(a) =>
            LET n == NodeAt(root, a)
            IN  /\ n.path = NodeAt(root, Front(a)).path
                /\ n.toc = <<>>
                /\ n.loaded => Shapes(n.subs) = Discovered(n.path)

\* the section n can be made from the files that match the entry item of
\* the manifest of p: without a description file among them it has the
\* entry's title and no manifest, with one it has the file's
OfEntry(n, p, item) ==
    LET descs == {e \in DescFiles(FilesOfEntry(DirAt(fs, p.path), item)) :
                     UsefulLines(e.lines) # <<>>}
    IN  IF descs = {} THEN n.title = TocTitle(item) /\ n.toc = <<>>
        ELSE \E e \in descs : /\ n.title = UsefulLines(e.lines)[1]
                              /\ n.toc = Tail(UsefulLines(e.lines))

\* C28: a section made from the files matching a manifest entry has its
\* parent's directory as its path; its manifest is empty unless a
\* description file is among the files, and then is that file's; with an
\* empty manifest its subsections are the sections of the numbered
\* subdirectories of the parent's directory, and with a manifest those the
\* manifest names there.
C28_FileBuiltManifest ==
    \A a \in Addrs(root) :
        FileBuilt(a) =>
            LET n == NodeAt(root, a)
            IN  /\ n.path = NodeAt(root, Front(a)).path
                /\ \E i \in 1..Len(NodeAt(root, Front(a)).toc) :
                      OfEntry(n, NodeAt(root, Front(a)), NodeAt(root, Front(a)).toc[i])
                /\ (n.loaded /\ n.toc = <<>>) => Shapes(n.subs) = Discovered(n.path)
                /\ (n.loaded /\ n.toc # <<>>) =>
                       Shapes(n.subs) = Shapes(get_subsections(fs, CanonEnum, n.path, n.toc))

\* the section of the entry a, made from a.txt, has been asked for its
\* subsections and has the section of the numbered directory as its child
C28_Witness ==
    /\ IsSection(root)
    /\ root.loaded
    /\ \E i \in 1..Len(root.subs) :
          /\ FileBuilt(<<i>>)
          /\ root.subs[i].toc = <<>>
          /\ root.subs[i].descriptions # <<>>
          /\ root.subs[i].loaded
          /\ Len(root.subs[i].subs) = 1
          /\ root.subs[i].subs[1].path = <<d_0001_a.name>>

=============================================================================
